---- MODULE Spec2Model ----
(***************************************************************************)
(* Model of evaluation/evaluation.py (class Evaluation): the batched       *)
(* feature extraction, the scores and the logging operations of an         *)
(* evaluation session.                                                     *)
(*                                                                         *)
(* A univariate series is an abstract identifier (a small integer); a row  *)
(* of a (b c l) array is the tuple of its c channels; a batch is a         *)
(* sequence of rows.  Collaborators that live outside the file (the        *)
(* pretrained classifier, the kernel transform, the stage-1 model, the     *)
(* sampler, the distance routines, the plotting and telemetry libraries)   *)
(* are deterministic tagging functions of their arguments, plus an oracle  *)
(* saying which of their calls raises.                                     *)
(*                                                                         *)
(* Every method is one action: it runs its whole loop and leaves its       *)
(* outcome, its value and the log of the calls it made; Return is the      *)
(* caller going on to the next call.  The session is built with            *)
(* use_custom_dataset=False, so self.fcn exists.  compute_z_svq is left    *)
(* out: no property below speaks of it.                                    *)
(***************************************************************************)
EXTENDS Integers, Sequences, FiniteSets, TLC

\* ------------------------------------------------------------------ bounds
\* largest number of rows of any array handed to an operation
MaxN == 3
\* largest configured evaluation.batch_size
MaxBatch == 2

\* ------------------------------------------------------------ value domains
Series == {0, 1}
ChannelCounts == {1, 2}
Kinds == {"train", "test", "valid"}
SampleKinds == {"unconditional", "conditional", "other"}
None == -1

RECURSIVE SeqsOfLen(_, _)
SeqsOfLen(S, n) ==
    IF n = 0 THEN {<<>>}
    ELSE {Append(q, e) : q \in SeqsOfLen(S, n - 1), e \in S}

SeqsUpTo(S, n) == UNION {SeqsOfLen(S, k) : k \in 0..n}

\* rows with c channels, and batches of shape (b c l) with b <= n
RowsOf(c) == SeqsOfLen(Series, c)
BatchesOf(c, n) == SeqsUpTo(RowsOf(c), n)
UniBatches == BatchesOf(1, MaxN)
\* the arrays handed to compute_z_gen: univariate ones of every size, and
\* short ones of every other channel count
Batches == UniBatches \cup UNION {BatchesOf(c, 2) : c \in ChannelCounts}

Min(a, b) == IF a < b THEN a ELSE b

\* the exception values of the model
NoExc == [type |-> "none", origin |-> "none", batch_index |-> None]
Exc(type, origin) == [type |-> type, origin |-> origin, batch_index |-> None]

VARIABLES
    batch_size, feature_extractor_type, fidelity_enhancer,
    X_train, X_test, Y_train, Y_test,
    z_train, z_test, pca,
    xmin_pca, xmax_pca, ymin_pca, ymax_pca,
    op, arg, calls, outcome, ret

config == <<batch_size, feature_extractor_type, fidelity_enhancer>>
corpus == <<X_train, X_test, Y_train, Y_test>>
cache == <<z_train, z_test, pca, xmin_pca, xmax_pca, ymin_pca, ymax_pca>>
session == <<config, corpus, cache>>
vars == <<session, op, arg, calls, outcome, ret>>

\* one collaborator call as it is recorded in the log of an operation
Call(fn, i, x) == [fn |-> fn, i |-> i, x |-> x]

\* ------------------------------------------------ external collaborators
\* A series whose features come out non-finite (a numerical edge case of the
\* extractor); reconstruction and refinement keep the series' last digit.
Degenerate(row) == row[1] % 10 = 0

\* self.fcn(x, return_feature_vector=True): one feature vector per row, of
\* the whole row (evaluation mode, so no cross-row dependency)
fcn_features(x) ==
    [k \in 1..Len(x) |-> [by |-> "fcn", of |-> x[k], finite |-> ~Degenerate(x[k])]]

\* apply_kernels(x, kernels) on a (b l) array: one feature vector per series
apply_kernels(x) ==
    [k \in 1..Len(x) |-> [by |-> "rocket", of |-> <<x[k]>>, finite |-> ~Degenerate(<<x[k]>>)]]

\* torch.softmax(self.fcn(x)): one class-probability vector per row
fcn_probs(x) == [k \in 1..Len(x) |-> [by |-> "softmax", of |-> x[k]]]

\* self.stage1.forward(batch, return_x_rec=True): the reconstruction of each row
stage1_forward(x) == [k \in 1..Len(x) |-> [c \in 1..Len(x[k]) |-> 10 + x[k][c]]]

\* FidelityEnhancer.forward: the refinement of each row
enhancer_forward(x) == [k \in 1..Len(x) |-> [c \in 1..Len(x[k]) |-> 20 + x[k][c]]]

\* utils.remove_outliers: the rows without a non-finite value, in order
RECURSIVE remove_outliers(_)
remove_outliers(z) ==
    IF z = <<>> THEN <<>>
    ELSE IF z[1].finite THEN <<z[1]>> \o remove_outliers(Tail(z))
         ELSE remove_outliers(Tail(z))

\* sklearn PCA(n_components=2).transform: the 2-D point of each feature vector
pca_transform(z) == [k \in 1..Len(z) |-> <<z[k].of[1], 0 - z[k].of[1]>>]

SeqMin(q) == CHOOSE m \in {q[k] : k \in 1..Len(q)} : \A k \in 1..Len(q) : m <= q[k]
SeqMax(q) == CHOOSE m \in {q[k] : k \in 1..Len(q)} : \A k \in 1..Len(q) : m >= q[k]
Column(pts, j) == [k \in 1..Len(pts) |-> pts[k][j]]

\* ------------------------------------------------------- batching helpers
\* Slice with the stop index taken as inclusive
SliceInclusive(X, start, stop) == SubSeq(X, start + 1, Min(stop + 1, Len(X)))

\* X[start:stop], a Python slice: it is cut at the end of X and is empty
\* when start is past the end
Slice(X, start, stop) == SubSeq(X, start + 1, Min(stop, Len(X)))

\* n_iters = n_samples // batch_size, plus one when there is a remainder
NIters(n_samples, b) ==
    LET n_iters == n_samples \div b
    IN IF n_samples % b > 0 THEN n_iters + 1 ELSE n_iters

\* np.concatenate(zs, axis=0) of a non-empty list
RECURSIVE Concatenate(_)
Concatenate(zs) == IF zs = <<>> THEN <<>> ELSE zs[1] \o Concatenate(Tail(zs))

\* --------------------------------------------------- feature extraction
\* _extract_feature_representations with multi-channel input refused by the
\* kernel transform
extract_feature_representations_strict(x, raises) ==
    IF feature_extractor_type = "supervised_fcn"
    THEN IF raises THEN [z |-> <<>>, exc |-> Exc("RuntimeError", "fcn")]
         ELSE [z |-> fcn_features(x), exc |-> NoExc]
    ELSE IF \E k \in 1..Len(x) : Len(x[k]) > 1
    THEN [z |-> <<>>, exc |-> Exc("ValueError", "_extract_feature_representations")]
    ELSE IF raises THEN [z |-> <<>>, exc |-> Exc("RuntimeError", "apply_kernels")]
    ELSE [z |-> apply_kernels([k \in 1..Len(x) |-> x[k][1]]), exc |-> NoExc]

\* _extract_feature_representations(x); `raises` says the collaborator's
\* call fails.  The result is [z, exc].
extract_feature_representations(x, raises) ==
    IF feature_extractor_type = "supervised_fcn"
    THEN IF raises THEN [z |-> <<>>, exc |-> Exc("RuntimeError", "fcn")]
         ELSE [z |-> fcn_features(x), exc |-> NoExc]
    ELSE IF feature_extractor_type = "rocket"
    THEN LET x0 == [k \in 1..Len(x) |-> x[k][1]]
         IN IF raises THEN [z |-> <<>>, exc |-> Exc("RuntimeError", "apply_kernels")]
            ELSE [z |-> apply_kernels(x0), exc |-> NoExc]
    ELSE [z |-> <<>>, exc |-> Exc("ValueError", "_extract_feature_representations")]

\* what an operation leaves behind: how it ended, its value and its calls
Returned(value, log) == [outcome |-> "returned", ret |-> value, calls |-> log]
Raised(exc, log) == [outcome |-> "raised", ret |-> exc, calls |-> log]

\* the end of every batched loop: np.concatenate / torch.cat of the parts,
\* which raises on an empty list
Finish(r, catError) ==
    IF r.exc # NoExc THEN Raised(r.exc, r.log)
    ELSE IF r.out = <<>> THEN Raised(Exc(catError, "concatenate"), r.log)
    ELSE Returned(Concatenate(r.out), r.log)

\* compute_z_loop with a failing slice skipped instead of ending the run
RECURSIVE compute_z_loop_skip(_, _, _, _, _, _, _)
compute_z_loop_skip(X, b, i, n_iters, zs, log, failAt) ==
    IF i >= n_iters THEN [out |-> zs, log |-> log, exc |-> NoExc]
    ELSE LET s == Slice(X, i * b, (i + 1) * b)
             log1 == Append(log, Call("extract", i, s))
             z_t == extract_feature_representations(s, i = failAt)
         IN IF z_t.exc # NoExc
            THEN compute_z_loop_skip(X, b, i + 1, n_iters, zs, log1, failAt)
            ELSE compute_z_loop_skip(X, b, i + 1, n_iters, Append(zs, z_t.z), log1, failAt)

\* the loop of compute_z, from iteration i on; b is self.batch_size
RECURSIVE compute_z_loop(_, _, _, _, _, _, _)
compute_z_loop(X, b, i, n_iters, zs, log, failAt) ==
    IF i >= n_iters THEN [out |-> zs, log |-> log, exc |-> NoExc]
    ELSE LET s == Slice(X, i * b, (i + 1) * b)
             log1 == Append(log, Call("extract", i, s))
             z_t == extract_feature_representations(s, i = failAt)
         IN IF z_t.exc # NoExc THEN [out |-> zs, log |-> log1, exc |-> z_t.exc]
            ELSE compute_z_loop(X, b, i + 1, n_iters, Append(zs, z_t.z), log1, failAt)

\* compute_z(kind)
compute_z(kind, b, failAt) ==
    IF kind \notin {"train", "test"} THEN Raised(Exc("AssertionError", "compute_z"), <<>>)
    ELSE LET X == IF kind = "train" THEN X_train ELSE X_test
             n_samples == Len(X)
         IN Finish(compute_z_loop(X, b, 0, NIters(n_samples, b), <<>>, <<>>, failAt), "ValueError")

\* the loop of compute_z_rec, from iteration i on; failWho names the call of
\* iteration failAt that raises
RECURSIVE compute_z_rec_loop(_, _, _, _, _, _, _, _)
compute_z_rec_loop(X, b, i, n_iters, zs, log, failAt, failWho) ==
    IF i >= n_iters THEN [out |-> zs, log |-> log, exc |-> NoExc]
    ELSE LET s == Slice(X, i * b, (i + 1) * b)
             log1 == Append(log, Call("stage1.forward", i, s))
             x_rec == stage1_forward(s)
             log2 == Append(log1, Call("extract", i, x_rec))
             z_t == extract_feature_representations(x_rec, i = failAt)
         IN IF i = failAt /\ failWho = "stage1"
            THEN [out |-> zs, log |-> log1, exc |-> Exc("RuntimeError", "stage1.forward")]
            ELSE IF z_t.exc # NoExc THEN [out |-> zs, log |-> log2, exc |-> z_t.exc]
            ELSE compute_z_rec_loop(X, b, i + 1, n_iters, Append(zs, z_t.z), log2, failAt, failWho)

\* compute_z_rec(kind)
compute_z_rec(kind, b, failAt, failWho) ==
    IF kind \notin {"train", "test"} THEN Raised(Exc("AssertionError", "compute_z_rec"), <<>>)
    ELSE LET X == IF kind = "train" THEN X_train ELSE X_test
             n_samples == Len(X)
         IN Finish(compute_z_rec_loop(X, b, 0, NIters(n_samples, b), <<>>, <<>>, failAt, failWho),
                   "ValueError")

\* the loop of compute_z_gen, from iteration i on
RECURSIVE compute_z_gen_loop(_, _, _, _, _, _, _)
compute_z_gen_loop(X_gen, b, i, n_iters, z_gen, log, failAt) ==
    IF i >= n_iters THEN [out |-> z_gen, log |-> log, exc |-> NoExc]
    ELSE LET s == Slice(X_gen, i * b, (i + 1) * b)
             log1 == Append(log, Call("extract", i, s))
             z_g == extract_feature_representations(s, i = failAt)
         IN IF z_g.exc # NoExc THEN [out |-> z_gen, log |-> log1, exc |-> z_g.exc]
            ELSE compute_z_gen_loop(X_gen, b, i + 1, n_iters, Append(z_gen, z_g.z), log1, failAt)

\* compute_z_gen without the extra iteration for the remainder
compute_z_gen_floor(X_gen, b, failAt) ==
    LET n_samples == Len(X_gen)
    IN Finish(compute_z_gen_loop(X_gen, b, 0, n_samples \div b, <<>>, <<>>, failAt), "ValueError")

\* compute_z_gen(X_gen)
compute_z_gen(X_gen, b, failAt) ==
    LET n_samples == Len(X_gen)
    IN Finish(compute_z_gen_loop(X_gen, b, 0, NIters(n_samples, b), <<>>, <<>>, failAt), "ValueError")

\* ---------------------------------------------------------------- sample
\* unconditional_sample / conditional_sample: n_samples univariate rows, the
\* sum of a low- and a high-frequency component
x_new_of(x_new_l, x_new_h) ==
    [k \in 1..Len(x_new_l) |-> <<x_new_l[k][1] + x_new_h[k][1]>>]

\* self.fidelity_enhancer(mini_batch): nn.Identity() when the enhancer is off
fidelity_enhancer_forward(mini_batch) ==
    IF fidelity_enhancer = "Identity" THEN mini_batch ELSE enhancer_forward(mini_batch)

\* NumBatches without the extra batch for the remainder
NumBatchesFloor(n, b) == n \div b

\* num_batches = n // batch_size + (1 if n % batch_size != 0 else 0)
NumBatches(n, b) == (n \div b) + (IF n % b # 0 THEN 1 ELSE 0)

\* sample_loop with the failing batch's index put into the error
RECURSIVE sample_loop_indexed(_, _, _, _, _, _, _)
sample_loop_indexed(x_new, b, i, num_batches, X_new_R, log, failAt) ==
    IF i >= num_batches THEN [out |-> X_new_R, log |-> log, exc |-> NoExc]
    ELSE LET mini_batch == Slice(x_new, i * b, i * b + b)
             log1 == Append(log, Call("fidelity_enhancer", i, mini_batch))
         IN IF i = failAt
            THEN [out |-> X_new_R, log |-> log1,
                  exc |-> [Exc("RuntimeError", "fidelity_enhancer") EXCEPT !.batch_index = i]]
            ELSE sample_loop_indexed(x_new, b, i + 1, num_batches,
                                     Append(X_new_R, fidelity_enhancer_forward(mini_batch)),
                                     log1, failAt)

\* the refinement loop of sample, from iteration i on
RECURSIVE sample_loop(_, _, _, _, _, _, _)
sample_loop(x_new, b, i, num_batches, X_new_R, log, failAt) ==
    IF i >= num_batches THEN [out |-> X_new_R, log |-> log, exc |-> NoExc]
    ELSE LET start_idx == i * b
             end_idx == start_idx + b
             mini_batch == Slice(x_new, start_idx, end_idx)
             log1 == Append(log, Call("fidelity_enhancer", i, mini_batch))
             x_new_R == fidelity_enhancer_forward(mini_batch)
         IN IF i = failAt
            THEN [out |-> X_new_R, log |-> log1, exc |-> Exc("RuntimeError", "fidelity_enhancer")]
            ELSE sample_loop(x_new, b, i + 1, num_batches, Append(X_new_R, x_new_R), log1, failAt)

\* sample(n_samples, kind, class_index); x_new_l and x_new_h are what the
\* sampler draws
sample(n_samples, kind, class_index, x_new_l, x_new_h, b, failAt) ==
    IF kind \notin {"unconditional", "conditional"}
    THEN Raised(Exc("AssertionError", "sample"), <<>>)
    ELSE LET x_new == x_new_of(x_new_l, x_new_h)
             sampler == IF kind = "unconditional" THEN "unconditional_sample"
                        ELSE "conditional_sample"
             log0 == <<Call(sampler, None,
                            [n_samples |-> n_samples,
                             class_index |-> IF kind = "unconditional" THEN None
                                             ELSE class_index])>>
             r == Finish(sample_loop(x_new, b, 0, NumBatches(Len(x_new), b), <<>>, log0, failAt),
                         "RuntimeError")
         IN IF r.outcome = "raised" THEN r
            ELSE Returned([raw |-> <<x_new_l, x_new_h, x_new>>, X_new_R |-> r.ret], r.calls)

\* ---------------------------------------------------------------- scores
\* calculate_fid(z1, z2); `raises` says the routine fails on these sets
calculate_fid(z1, z2, raises) ==
    IF raises THEN Raised(Exc("ValueError", "calculate_fid"), <<Call("calculate_fid", None, <<z1, z2>>)>>)
    ELSE Returned([fid_of |-> <<z1, z2>>], <<Call("calculate_fid", None, <<z1, z2>>)>>)

\* fid_score with a row-count check in front of the distance routine
fid_score_guarded(z1, z2, raises) ==
    LET z1f == remove_outliers(z1)
        z2f == remove_outliers(z2)
    IN IF Len(z1f) < 2 \/ Len(z2f) < 2
       THEN Raised(Exc("InsufficientDataError", "fid_score"), <<>>)
       ELSE calculate_fid(z1f, z2f, raises)

\* fid_score(z1, z2)
fid_score(z1, z2, raises) ==
    LET z1f == remove_outliers(z1)
        z2f == remove_outliers(z2)
    IN calculate_fid(z1f, z2f, raises)

\* calculate_inception_score(p_yx): fails on an empty input
calculate_inception_score(p_yx, log) ==
    LET log1 == Append(log, Call("calculate_inception_score", None, p_yx))
    IN IF p_yx = <<>> THEN Raised(Exc("ValueError", "calculate_inception_score"), log1)
       ELSE Returned([is_of |-> p_yx], log1)

\* the loop of inception_score, from iteration i on
RECURSIVE inception_score_loop(_, _, _, _, _, _, _)
inception_score_loop(X_gen, b, i, n_iters, p_yx_gen, log, failAt) ==
    IF i >= n_iters THEN [out |-> p_yx_gen, log |-> log, exc |-> NoExc]
    ELSE LET s == Slice(X_gen, i * b, (i + 1) * b)
             log1 == Append(log, Call("fcn", i, s))
             p_yx_g == fcn_probs(s)
         IN IF i = failAt
            THEN [out |-> p_yx_gen, log |-> log1, exc |-> Exc("RuntimeError", "fcn")]
            ELSE inception_score_loop(X_gen, b, i + 1, n_iters, Append(p_yx_gen, p_yx_g), log1, failAt)

\* inception_score(X_gen)
inception_score(X_gen, b, failAt) ==
    LET n_samples == Len(X_test)
        r == Finish(inception_score_loop(X_gen, b, 0, NIters(n_samples, b), <<>>, <<>>, failAt),
                    "ValueError")
    IN IF r.outcome = "raised" THEN r
       ELSE calculate_inception_score(r.ret, r.calls)

\* ------------------------------------------------- plots and telemetry
\* `fail` names the library call that raises, if one does: "plot" a
\* matplotlib / TSNE / PCA call, "sink" (or "sink1", "sink2") a wandb.log
\* call, "index" an out-of-range row index among the random draws.

\* log_visual_inspection with the telemetry call's failure swallowed
log_visual_inspection_quiet(X1, X2, fail) ==
    IF Len(X1) = 0 THEN Raised(Exc("ValueError", "np.random.randint"), <<>>)
    ELSE IF fail = "plot" THEN Raised(Exc("RuntimeError", "plt"), <<Call("plt", None, Len(X1))>>)
    ELSE IF Len(X2) = 0
    THEN Raised(Exc("ValueError", "np.random.randint"), <<Call("plt", None, Len(X1))>>)
    ELSE Returned(None, <<Call("plt", None, Len(X1)), Call("plt", None, Len(X2)),
                          Call("wandb.log", None, "visual comp")>>)

\* log_visual_inspection(X1, X2, title)
log_visual_inspection(X1, X2, fail) ==
    IF Len(X1) = 0 THEN Raised(Exc("ValueError", "np.random.randint"), <<>>)
    ELSE IF fail = "plot" THEN Raised(Exc("RuntimeError", "plt"), <<Call("plt", None, Len(X1))>>)
    ELSE IF Len(X2) = 0
    THEN Raised(Exc("ValueError", "np.random.randint"), <<Call("plt", None, Len(X1))>>)
    ELSE LET log == <<Call("plt", None, Len(X1)), Call("plt", None, Len(X2)),
                      Call("wandb.log", None, "visual comp")>>
         IN IF fail = "sink" THEN Raised(Exc("CommError", "wandb.log"), log)
            ELSE Returned(None, log)

\* what np.random.choice(range(n), size=size, replace=True) can return: every
\* sequence of `size` row indices below n, in any order and with repeats
Choices(n, size) == SeqsOfLen(0..(n - 1), size)

\* Z[ind]: the rows of Z at the drawn indices, in the order drawn
Take(Z, ind) == [j \in 1..Len(ind) |-> Z[ind[j] + 1]]

\* the limits plt.xlim / plt.ylim are given for cached bounds lo and hi, the
\* padding being (hi - lo) * 0.02; in units of 1/50
PaddedLimits(lo, hi) == <<50 * lo - (hi - lo), 50 * hi + (hi - lo)>>

\* the loop of log_pca over zip(Zs, labels), from pair k on; inds[k] is the
\* draw of np.random.choice for pair k
RECURSIVE log_pca_loop(_, _, _, _, _)
log_pca_loop(Zs, inds, k, n, log) ==
    IF k > n THEN [log |-> log, exc |-> NoExc]
    ELSE IF Len(Zs[k]) = 0 THEN [log |-> log, exc |-> Exc("ValueError", "np.random.choice")]
    ELSE LET Z_ind == Take(Zs[k], inds[k])
             Z_embed == pca_transform(Z_ind)
         IN log_pca_loop(Zs, inds, k + 1, n,
                log \o <<Call("pca.transform", k, Z_ind),
                         Call("plt.scatter", k, Z_embed),
                         Call("plt.xlim", k, PaddedLimits(xmin_pca, xmax_pca)),
                         Call("plt.ylim", k, PaddedLimits(ymin_pca, ymax_pca))>>)

\* log_pca with the projector fit again on the first set it is given
log_pca_refit(Zs, labels, inds, fail) ==
    IF Len(Zs) # Len(labels) \/ Len(Zs) = 0 \/ Len(Zs[1]) = 0 \/ fail # "none"
    THEN Raised(Exc("RuntimeError", "log_pca"), <<>>) @@ [pca |-> pca]
    ELSE Returned(None, <<Call("pca.fit_transform", 1, Take(Zs[1], inds[1]))>>)
         @@ [pca |-> [pca EXCEPT !.fitted_on = Take(Zs[1], inds[1]), !.n_fits = @ + 1]]

\* log_pca(Zs, labels, n_plot_samples), n_plot_samples being the length of
\* the draws in inds: the result also holds the projector as the call leaves
\* it (transform only reads it)
log_pca(Zs, labels, inds, fail) ==
    IF Len(Zs) # Len(labels)
    THEN Raised(Exc("AssertionError", "log_pca"), <<>>) @@ [pca |-> pca]
    ELSE IF fail = "plot"
    THEN Raised(Exc("RuntimeError", "plt.figure"), <<Call("plt.figure", None, 0)>>)
         @@ [pca |-> pca]
    ELSE LET r == log_pca_loop(Zs, inds, 1, Min(Len(Zs), Len(labels)),
                               <<Call("plt.figure", None, 0)>>)
             log == r.log \o <<Call("plt.legend", None, 0), Call("plt.tight_layout", None, 0),
                               Call("wandb.log", None, "PCA on Z")>>
         IN IF r.exc # NoExc THEN Raised(r.exc, r.log) @@ [pca |-> pca]
            ELSE IF fail = "sink" THEN Raised(Exc("CommError", "wandb.log"), log) @@ [pca |-> pca]
            ELSE Returned(None, Append(log, Call("plt.close", None, 0))) @@ [pca |-> pca]

\* the number of axes np.squeeze leaves of a (b 1 l) array whose series have
\* more than one point: with b = 1 the batch axis goes as well
squeezed_ndim(X) == IF Len(X) = 1 THEN 1 ELSE 2

\* log_tsne(n_plot_samples, X_gen, z_test, z_gen); z_t is its z_test
\* argument. The rows drawn from X_test and from X_gen are taken from the
\* squeezed arrays and concatenated, which numpy refuses when one array has
\* kept its batch axis and the other has not.
log_tsne(X_gen, z_t, z_gen, fail) ==
    LET log1 == <<Call("TSNE", None, Len(X_test) + Len(X_gen)), Call("plt", None, 0),
                  Call("wandb.log", None, "TNSE-data_space")>>
        log2 == log1 \o <<Call("TSNE", None, Len(z_t) + Len(z_gen)), Call("plt", None, 0),
                          Call("wandb.log", None, "TSNE-latent_space")>>
    IN IF Len(X_gen) = 0 THEN Raised(Exc("ValueError", "np.random.randint"), <<>>)
       ELSE IF squeezed_ndim(X_test) # squeezed_ndim(X_gen)
       THEN Raised(Exc("ValueError", "concatenate"), <<>>)
       ELSE IF fail = "plot" THEN Raised(Exc("RuntimeError", "TSNE"), SubSeq(log1, 1, 1))
       ELSE IF fail = "sink1" THEN Raised(Exc("CommError", "wandb.log"), log1)
       ELSE IF (fail = "index" \/ Len(z_t) = 0 \/ Len(z_gen) = 0)
               /\ (Len(z_t) < Len(X_test) \/ Len(z_gen) < Len(X_gen))
       THEN Raised(Exc("IndexError", "log_tsne"), log1)
       ELSE IF fail = "sink2" THEN Raised(Exc("CommError", "wandb.log"), log2)
       ELSE Returned(None, log2)

\* ------------------------------------------------------------ the session
\* DatasetImporterUCR / DatasetImporterCustom: one integer label per row
Labels(X) == [k \in 1..Len(X) |-> k % 2]

\* the reference splits a session can be built on: univariate, at least one
\* row each, every prefix of a pattern in which some series are degenerate
TrainSplits == {[k \in 1..n |-> <<IF k % 3 = 0 THEN 0 ELSE 1>>] : n \in 1..MaxN}
TestSplits == {[k \in 1..n |-> <<k % 2>>] : n \in 1..MaxN}

\* the high-frequency components the sampler draws
HighFreq == {<<1>>}

\* the slice indices at which a collaborator may be made to fail
FailPoints == {None} \cup 0..(MaxN - 1)

\* PCA(n_components=2, random_state=0) after fit_transform(z)
pca_fit(z) == [n_components |-> 2, fitted_on |-> z, n_fits |-> 1]

\* __init__: the state it leaves when it returns
Init ==
    /\ batch_size \in 1..MaxBatch
    /\ feature_extractor_type \in {"supervised_fcn", "rocket"}
    /\ fidelity_enhancer \in {"Identity", "FidelityEnhancer"}
    /\ X_train \in TrainSplits
    /\ X_test \in TestSplits
    /\ Y_train = Labels(X_train)
    /\ Y_test = Labels(X_test)
    /\ z_train = compute_z("train", batch_size, None).ret
    /\ z_test = compute_z("test", batch_size, None).ret
    /\ Len(remove_outliers(z_train)) >= 2
    /\ pca = pca_fit(remove_outliers(z_train))
    /\ LET z_transform_pca == pca_transform(pca.fitted_on)
       IN /\ xmin_pca = SeqMin(Column(z_transform_pca, 1))
          /\ xmax_pca = SeqMax(Column(z_transform_pca, 1))
          /\ ymin_pca = SeqMin(Column(z_transform_pca, 2))
          /\ ymax_pca = SeqMax(Column(z_transform_pca, 2))
    /\ op = "idle"
    /\ arg = <<>>
    /\ calls = <<>>
    /\ outcome = "none"
    /\ ret = None

\* what a finished call leaves for its caller to see
Done(name, input, r) ==
    /\ op = "idle"
    /\ op' = name
    /\ arg' = input
    /\ calls' = r.calls
    /\ outcome' = r.outcome
    /\ ret' = r.ret

Sample ==
    \E n_samples \in 0..MaxN, kind \in SampleKinds, failAt \in FailPoints :
      \E x_new_l \in SeqsOfLen(RowsOf(1), n_samples), x_new_h \in SeqsOfLen(HighFreq, n_samples) :
        /\ Done("sample",
                [n_samples |-> n_samples, kind |-> kind, x_new_l |-> x_new_l,
                 x_new_h |-> x_new_h, failAt |-> failAt],
                sample(n_samples, kind, IF kind = "conditional" THEN 0 ELSE None,
                       x_new_l, x_new_h, batch_size, failAt))
        /\ UNCHANGED session

ComputeZ ==
    \E kind \in Kinds, failAt \in FailPoints :
        /\ Done("compute_z", [kind |-> kind, failAt |-> failAt],
                compute_z(kind, batch_size, failAt))
        /\ UNCHANGED session

ComputeZRec ==
    \E kind \in Kinds, failAt \in FailPoints, failWho \in {"stage1", "extractor"} :
        /\ Done("compute_z_rec", [kind |-> kind, failAt |-> failAt, failWho |-> failWho],
                compute_z_rec(kind, batch_size, failAt, failWho))
        /\ UNCHANGED session

ComputeZGen ==
    \E X_gen \in Batches, failAt \in FailPoints :
        /\ Done("compute_z_gen", [X_gen |-> X_gen, failAt |-> failAt],
                compute_z_gen(X_gen, batch_size, failAt))
        /\ UNCHANGED session

FidScore ==
    \E z1 \in {z_train, z_test}, X \in UniBatches, raises \in BOOLEAN :
        LET z2 == extract_feature_representations(X, FALSE).z
        IN /\ Done("fid_score", [z1 |-> z1, z2 |-> z2, raises |-> raises],
                   fid_score(z1, z2, raises))
           /\ UNCHANGED session

InceptionScore ==
    \E X_gen \in UniBatches, failAt \in FailPoints :
        /\ Done("inception_score", [X_gen |-> X_gen, failAt |-> failAt],
                inception_score(X_gen, batch_size, failAt))
        /\ UNCHANGED session

LogVisualInspection ==
    \E X1 \in {X_test, <<>>}, X2 \in BatchesOf(1, 1), fail \in {"none", "plot", "sink"} :
        /\ Done("log_visual_inspection", [X1 |-> X1, X2 |-> X2, fail |-> fail],
                log_visual_inspection(X1, X2, fail))
        /\ UNCHANGED session

\* the values n_plot_samples takes
PlotSampleCounts == {1, 2}

\* the draws a call of log_pca makes, one per pair its loop gets to: none
\* when it stops before the loop, none after the first empty set
RECURSIVE DrawsFrom(_, _, _)
DrawsFrom(Zs, k, size) ==
    IF k > Len(Zs) THEN {<<>>}
    ELSE IF Len(Zs[k]) = 0 THEN {<<>>}
    ELSE {<<ind>> \o rest : ind \in Choices(Len(Zs[k]), size), rest \in DrawsFrom(Zs, k + 1, size)}

Draws(Zs, n_labels, size, fail) ==
    IF Len(Zs) # n_labels \/ fail = "plot" THEN {<<>>} ELSE DrawsFrom(Zs, 1, size)

\* the lists log_pca is called on: the cached test features, the features of
\* a generated batch of two rows, an empty set in place of either
PcaInputs ==
    LET z_gen == extract_feature_representations(<<<<0>>, <<1>>>>, FALSE).z
    IN SeqsUpTo({z_test, <<>>}, 1) \cup {<<a, b>> : a \in {z_test, <<>>}, b \in {z_gen, <<>>}}

LogPca ==
    \E Zs \in PcaInputs, n_labels \in 1..2,
       n_plot_samples \in PlotSampleCounts, fail \in {"none", "plot", "sink"} :
      \E inds \in Draws(Zs, n_labels, n_plot_samples, fail) :
        LET r == log_pca(Zs, [k \in 1..n_labels |-> "label"], inds, fail)
        IN /\ Done("log_pca",
                   [Zs |-> Zs, n_labels |-> n_labels, n_plot_samples |-> n_plot_samples,
                    inds |-> inds, fail |-> fail], r)
           /\ pca' = r.pca
           /\ UNCHANGED <<config, corpus, z_train, z_test, xmin_pca, xmax_pca, ymin_pca, ymax_pca>>

\* the generated batches handed to log_tsne: of no row, of one row and of
\* two; log_tsne reads their row count only
TsneBatches == {[k \in 1..n |-> <<k % 2>>] : n \in 0..2}

LogTsne ==
    \E X_gen \in TsneBatches, z_t \in {z_test, <<>>}, z_gen \in {z_train, <<>>},
       fail \in {"none", "plot", "sink1", "index", "sink2"} :
        /\ Done("log_tsne", [X_gen |-> X_gen, z_test |-> z_t, z_gen |-> z_gen, fail |-> fail],
                log_tsne(X_gen, z_t, z_gen, fail))
        /\ UNCHANGED session

\* the caller takes the result of the finished call and goes on
Return ==
    /\ op # "idle"
    /\ op' = "idle"
    /\ arg' = <<>>
    /\ calls' = <<>>
    /\ outcome' = "none"
    /\ ret' = None
    /\ UNCHANGED session

Next ==
    \/ Return
    \/ Sample
    \/ ComputeZ
    \/ ComputeZRec
    \/ ComputeZGen
    \/ FidScore
    \/ InceptionScore
    \/ LogVisualInspection
    \/ LogPca
    \/ LogTsne

Spec == Init /\ [][Next]_vars

\* ------------------------------------------------------------- properties
CeilDiv(n, b) == (n + b - 1) \div b

\* the rows lo+1 .. hi of X, written without the slicing helper
Rows(X, lo, hi) == [j \in 1..(hi - lo) |-> X[lo + j]]

\* the calls of the log made to fn, in the order they were made
CallsTo(fn) == SelectSeq(calls, LAMBDA c : c.fn = fn)

\* the feature vector the configured extractor gives one row on its own
FeatureOfRow(row) == extract_feature_representations(<<row>>, FALSE).z[1]

ExtractOps == {"compute_z", "compute_z_rec", "compute_z_gen"}
KindOk == op \in {"compute_z", "compute_z_rec"} => arg.kind \in {"train", "test"}

\* the array the extractor of the running operation is applied to
ExtractInput ==
    IF op = "compute_z_gen" THEN arg.X_gen
    ELSE LET X == IF arg.kind = "train" THEN X_train ELSE X_test
         IN IF op = "compute_z_rec" THEN stage1_forward(X) ELSE X

\* C1: a batched feature extraction over N >= 1 rows in which no call fails
\* returns; the extractor was then applied exactly once to each of
\* ceil(N / batch_size) slices, slice i being the rows i*b .. min((i+1)*b, N)
\* of the input, in ascending order, and the result has N rows, row j being
\* the feature vector of input row j.
C1_BatchedExtraction ==
    (op \in ExtractOps /\ KindOk) =>
        LET X == ExtractInput
            N == Len(X)
            ex == CallsTo("extract")
        IN /\ (N >= 1 /\ arg.failAt = None) => outcome = "returned"
           /\ outcome = "returned" =>
                /\ N >= 1
                /\ Len(ex) = CeilDiv(N, batch_size)
                /\ \A k \in 1..Len(ex) :
                     /\ ex[k].i = k - 1
                     /\ ex[k].x = Rows(X, (k - 1) * batch_size, Min(k * batch_size, N))
                     /\ k < Len(ex) => Len(ex[k].x) = batch_size
                /\ Len(ret) = N
                /\ \A j \in 1..N : ret[j] = FeatureOfRow(X[j])

\* C1 witness: compute_z_rec returned on a split that does not divide into
\* whole batches
C1_Witness ==
    /\ op = "compute_z_rec"
    /\ outcome = "returned"
    /\ batch_size = 2
    /\ Len(ret) = 3
    /\ Len(CallsTo("extract")) = 2

\* the value a batched operation returns with batch size b when no call fails
RunWith(b) ==
    IF op = "compute_z" THEN compute_z(arg.kind, b, None)
    ELSE IF op = "compute_z_gen" THEN compute_z_gen(arg.X_gen, b, None)
    ELSE sample(arg.n_samples, arg.kind, None, arg.x_new_l, arg.x_new_h, b, None)

\* C2: batch invariance: what compute_z, compute_z_gen and sample return
\* with the configured batch size is, element by element, what they return on
\* the same data with every other batch size.
C2_BatchInvariance ==
    (op \in {"compute_z", "compute_z_gen", "sample"} /\ outcome = "returned") =>
        \A b2 \in 1..MaxBatch :
            /\ RunWith(b2).outcome = "returned"
            /\ RunWith(b2).ret = ret

\* C2 witness: sample returned three refined rows made in two batches
C2_Witness ==
    /\ op = "sample"
    /\ outcome = "returned"
    /\ batch_size = 2
    /\ fidelity_enhancer = "FidelityEnhancer"
    /\ Len(ret.X_new_R) = 3

\* C3: inception_score hands the concentration score one class-probability
\* vector per row of X_gen, in input order, and sends the classifier no empty
\* slice.
C3_AllGeneratedRowsScored ==
    (op = "inception_score" /\ Len(arg.X_gen) >= 1 /\ arg.failAt = None) =>
        /\ \A k \in 1..Len(calls) :
             calls[k].fn = "calculate_inception_score" => calls[k].x = fcn_probs(arg.X_gen)
        /\ \A k \in 1..Len(calls) : calls[k].fn = "fcn" => Len(calls[k].x) >= 1

BatchedOps == {"compute_z", "compute_z_rec", "compute_z_gen", "sample", "inception_score"}

\* the number of iterations the loop of the finished operation is set up for
LoopIters ==
    IF op \in ExtractOps THEN CeilDiv(Len(ExtractInput), batch_size)
    ELSE IF op = "sample" THEN CeilDiv(arg.n_samples, batch_size)
    ELSE CeilDiv(Len(X_test), batch_size)

\* the per-slice function of the finished batched operation was made to
\* raise on a slice its loop reaches
SliceFails ==
    /\ op \in BatchedOps
    /\ KindOk
    /\ op = "sample" => arg.kind \in {"unconditional", "conditional"}
    /\ arg.failAt # None
    /\ arg.failAt < LoopIters

\* the collaborator that raised in the finished batched operation
FailingCollaborator ==
    IF op = "sample" THEN "fidelity_enhancer"
    ELSE IF op = "inception_score" THEN "fcn"
    ELSE IF op = "compute_z_rec" /\ arg.failWho = "stage1" THEN "stage1.forward"
    ELSE IF feature_extractor_type = "supervised_fcn" THEN "fcn"
    ELSE "apply_kernels"

\* the per-slice calls of the log
SliceCalls == SelectSeq(calls, LAMBDA c : c.i # None)

\* C4: when the per-slice function raises on slice i the run ends there: the
\* operation raises instead of returning a concatenated result, every slice
\* up to i was handed out once and no slice after i was.
C4_AbortOnFailingSlice ==
    SliceFails =>
        /\ outcome = "raised"
        /\ ret.type # "none"
        /\ \A k \in 1..Len(SliceCalls) : SliceCalls[k].i <= arg.failAt
        /\ \A i \in 0..arg.failAt :
             Cardinality({k \in 1..Len(SliceCalls) :
                            SliceCalls[k].i = i /\ SliceCalls[k].fn = calls[Len(calls)].fn}) = 1
        /\ calls[Len(calls)].i = arg.failAt

\* C4 witness: compute_z failed on the second of three slices
C4_Witness ==
    /\ op = "compute_z"
    /\ arg.kind = "train"
    /\ Len(X_train) = 3
    /\ batch_size = 1
    /\ arg.failAt = 1
    /\ outcome = "raised"
    /\ Len(calls) = 2

\* C5 as stated: the error of a failing slice carries the slice's index.
C5_ErrorNamesSlice ==
    SliceFails => (outcome = "raised" /\ ret.batch_index = arg.failAt)

\* C5: the error of a failing slice reaches the caller as the collaborator
\* raised it, with no batch index added.
C5_ErrorPropagatesUnchanged ==
    SliceFails => (outcome = "raised" /\ ret = Exc("RuntimeError", FailingCollaborator))

\* C5 witness: the refinement of the second batch of sample failed
C5_Witness ==
    /\ op = "sample"
    /\ arg.failAt = 1
    /\ arg.n_samples = 3
    /\ outcome = "raised"
    /\ ret.origin = "fidelity_enhancer"
    /\ ret.batch_index = None

\* the rows of a feature set that hold no non-finite value
Finite(z) == SelectSeq(z, LAMBDA f : f.finite)

TooFewRows == Len(Finite(arg.z1)) < 2 \/ Len(Finite(arg.z2)) < 2

\* C6 as stated: with fewer than two rows left in a set after filtering,
\* fid_score raises and the distance routine is not called.
C6_InsufficientDataGuard ==
    (op = "fid_score" /\ TooFewRows) => (outcome = "raised" /\ CallsTo("calculate_fid") = <<>>)

\* C6: fid_score has no row-count check: it calls the distance routine once,
\* on the two filtered sets, however few rows they hold, and ends as that
\* call ends.
C6_FidAlwaysDelegates ==
    op = "fid_score" =>
        /\ calls = <<Call("calculate_fid", None, <<Finite(arg.z1), Finite(arg.z2)>>)>>
        /\ (outcome = "raised") = arg.raises
        /\ outcome = "raised" => ret = Exc("ValueError", "calculate_fid")
        /\ outcome = "returned" => ret = [fid_of |-> <<Finite(arg.z1), Finite(arg.z2)>>]

\* C6 witness: the distance routine was called on a set with one row left
C6_Witness ==
    /\ op = "fid_score"
    /\ Len(arg.z2) = 2
    /\ Len(Finite(arg.z2)) = 1
    /\ Len(calls) = 1
    /\ calls[1].fn = "calculate_fid"

MultiChannelInput ==
    /\ op = "compute_z_gen"
    /\ feature_extractor_type = "rocket"
    /\ Len(arg.X_gen) >= 1
    /\ Len(arg.X_gen[1]) > 1

\* C7 as stated: the kernel transform refuses multi-channel input.
C7_MultiChannelRejected ==
    MultiChannelInput =>
        (outcome = "raised" /\ ret.origin = "_extract_feature_representations")

\* C7: with the kernel-transform extractor a multi-channel batch is not
\* refused: the features of channel 0 of every row are returned and the
\* other channels are ignored.
C7_RocketUsesFirstChannel ==
    (MultiChannelInput /\ arg.failAt = None) =>
        /\ outcome = "returned"
        /\ Len(ret) = Len(arg.X_gen)
        /\ \A j \in 1..Len(ret) :
             ret[j] = [by |-> "rocket", of |-> <<arg.X_gen[j][1]>>,
                       finite |-> arg.X_gen[j][1] % 10 # 0]

\* C7 witness: two two-channel rows that differ in channel 1 only got the
\* same features
C7_Witness ==
    /\ MultiChannelInput
    /\ outcome = "returned"
    /\ Len(ret) = 2
    /\ arg.X_gen[1][2] # arg.X_gen[2][2]
    /\ ret[1] = ret[2]

LogOps == {"log_visual_inspection", "log_pca", "log_tsne"}
SinkOrPlot == {"wandb.log", "plt", "plt.figure", "TSNE"}

\* C8 as stated: no failure of the telemetry sink or of plotting leaves a
\* logging operation.
C8_LoggingFailuresContained ==
    ~(op \in LogOps /\ outcome = "raised" /\ ret.origin \in SinkOrPlot)

\* the finished log_tsne got past the draws and the concatenation of the
\* drawn rows
TsneReached ==
    /\ Len(arg.X_gen) > 0
    /\ ((Len(X_test) = 1) <=> (Len(arg.X_gen) = 1))

\* the call of the finished logging operation that was made to fail, "none"
\* when the operation does not get to it
FailedLogCall ==
    IF op = "log_visual_inspection"
    THEN IF arg.fail = "plot" /\ Len(arg.X1) > 0 THEN "plt"
         ELSE IF arg.fail = "sink" /\ Len(arg.X1) > 0 /\ Len(arg.X2) > 0 THEN "wandb.log"
         ELSE "none"
    ELSE IF op = "log_pca"
    THEN IF arg.fail = "plot" /\ Len(arg.Zs) = arg.n_labels THEN "plt.figure"
         ELSE IF /\ arg.fail = "sink"
                 /\ Len(arg.Zs) = arg.n_labels
                 /\ \A k \in 1..Len(arg.Zs) : Len(arg.Zs[k]) > 0
              THEN "wandb.log"
         ELSE "none"
    ELSE IF ~TsneReached THEN "none"
         ELSE IF arg.fail = "plot" THEN "TSNE"
         ELSE IF arg.fail = "sink1" THEN "wandb.log"
         ELSE IF /\ arg.fail = "sink2"
                 /\ Len(arg.z_test) >= Len(X_test)
                 /\ Len(arg.z_gen) >= Len(arg.X_gen)
              THEN "wandb.log"
         ELSE "none"

\* C8: a failure of the telemetry sink or of plotting inside a logging
\* operation is not caught there: the operation raises that error to its
\* caller.
C8_LoggingFailuresPropagate ==
    (op \in LogOps /\ FailedLogCall # "none") =>
        /\ outcome = "raised"
        /\ ret.origin = FailedLogCall
        /\ calls[Len(calls)].fn = FailedLogCall

\* C8 witness: the telemetry call of log_visual_inspection failed after both
\* plots were drawn
C8_Witness ==
    /\ op = "log_visual_inspection"
    /\ arg.fail = "sink"
    /\ Len(calls) = 3
    /\ outcome = "raised"
    /\ ret.origin = "wandb.log"

\* C9: sample returns the unrefined components and a refined batch with one
\* row per row of x_new, row i being the refinement of x_new row i; with the
\* enhancer disabled the refined batch is x_new itself, for every batch size.
C9_SampleRefinement ==
    (op = "sample" /\ arg.kind \in {"unconditional", "conditional"}) =>
        LET x_new == [k \in 1..arg.n_samples |-> <<arg.x_new_l[k][1] + arg.x_new_h[k][1]>>]
        IN /\ (arg.n_samples >= 1 /\ arg.failAt = None) => outcome = "returned"
           /\ outcome = "returned" =>
                /\ ret.raw = <<arg.x_new_l, arg.x_new_h, x_new>>
                /\ Len(ret.X_new_R) = Len(x_new)
                /\ \A k \in 1..Len(x_new) :
                     ret.X_new_R[k] = IF fidelity_enhancer = "Identity" THEN x_new[k]
                                      ELSE enhancer_forward(<<x_new[k]>>)[1]
                /\ fidelity_enhancer = "Identity" => ret.X_new_R = x_new

\* C9 witness: with the enhancer disabled, three sampled rows came back as
\* they were, refined in two batches
C9_Witness ==
    /\ op = "sample"
    /\ outcome = "returned"
    /\ fidelity_enhancer = "Identity"
    /\ batch_size = 2
    /\ arg.n_samples = 3
    /\ ret.X_new_R = ret.raw[3]
    /\ Len(CallsTo("fidelity_enhancer")) = 2

\* C10: the projector is the one the constructor fit, once, on the
\* outlier-filtered train features, and no operation changes the reference
\* corpus, the cached feature sets, the projector or the cached axis bounds.
C10_SessionFixed ==
    /\ [](/\ pca.n_fits = 1
          /\ pca.fitted_on = Finite(z_train)
          /\ Len(z_train) = Len(X_train)
          /\ \A j \in 1..Len(X_train) : z_train[j] = FeatureOfRow(X_train[j]))
    /\ [][UNCHANGED <<corpus, cache>>]_vars

\* C10 witness: log_pca projected a resample of the cached test features in
\* which a row is drawn twice and a resample of generated features, and
\* returned
C10_Witness ==
    /\ op = "log_pca"
    /\ outcome = "returned"
    /\ Len(CallsTo("pca.transform")) = 2
    /\ arg.n_plot_samples = 2
    /\ arg.inds[1][1] = arg.inds[1][2]
    /\ arg.inds[2][1] # arg.inds[2][2]
    /\ pca.n_fits = 1

====
